---- MODULE Spec2Model ----
(***************************************************************************)
(* The Monzo -> Lunch Money synchronisation cycle of src/main.py: fetch,   *)
(* classify against the store (new / changed), write the store, call the   *)
(* sink (create in chunks, update one by one).  One cycle is one run of    *)
(* the __main__ block; the store (db) and the sink outlive the cycles.     *)
(***************************************************************************)
EXTENDS Integers, Sequences, FiniteSets, TLC

\* ------------------------------------------------------------------ bounds
MaxId == 2          \* canonical transaction ids are 1..MaxId
MaxChunk == 2       \* chunk_size is configured in 1..MaxChunk
MaxCycles == 2      \* number of runs of the __main__ block

\* ------------------------------------------------------------ value domains
NULL == 0           \* Python None / SQL NULL / NaN in a lunch_money_id column

NaN == "NaN"        \* a missing value (None / NaN) in a column of strings

Ids == 1 .. MaxId
NotesValues == {"lunch", "dinner"}
Sources == {"Main", "Pot"}

\* Series.fillna(value)
fillna(x, value) == IF x = NaN THEN value ELSE x

\* A flag that only looks for a missing decline_reason.
add_decline_column_notnull(decline_reason) == IF decline_reason = NaN THEN 0 ELSE 1

\* np.where(decline_reason.fillna("") == "", 0, 1)
add_decline_column(decline_reason) == IF fillna(decline_reason, "") = "" THEN 0 ELSE 1

\* The decline_reason the bank reports for a declined transaction.
DeclineReasonOf(is_declined) == IF is_declined THEN "INSUFFICIENT_FUNDS" ELSE NaN

\* The account a transaction id comes from never changes between fetches.
SourceOf(i) == IF i = 1 THEN "Main" ELSE "Pot"

\* The bank's category of a transaction, as the mapper formats it.
CategoryOf(i) == IF i = 1 THEN "Groceries" ELSE "Eating Out"

\* LUNCH_MONEY_CATEGORIES_PATH as read by get_lunch_money_categories: name -> id.
\* The budget has no category named "Eating Out".
categories_dict == [c \in {"Groceries"} |-> 21]

\* LUNCH_MONEY_ASSETS_PATH as read by get_lunch_money_assets: display_name -> id.
\* The file either knows every source or lacks the pot account.
AssetTables ==
    { [s \in Sources |-> IF s = "Main" THEN 11 ELSE 12],
      [s \in {"Main"} |-> 11] }

VARIABLES
    pc,                         \* position in the __main__ block
    cycle,                      \* number of the current run
    chunk_size,                 \* chunk_size of upload_new_lunch_money_transactions (default 1)
    db,                         \* the store table: id -> row
    sink,                       \* the sink: how many records it created per external_id
    transactions_df,            \* canonical records of this cycle: id -> record
    assets_ids_dict,            \* the asset table (configuration, the same in every run)
    declined,                   \* the ids whose decline_reason the bank has set
    new_transactions_df,
    new_transactions_dct,       \* list of new payloads
    start,                      \* loop variable of the chunk loop
    changed_transactions_ids,
    changed_transactions_df,
    changed_transactions_dct,   \* list of changed payloads
    sent,                       \* number of changed payloads already sent
    log,                        \* store and sink calls of this cycle, in order
    db0,                        \* the store as it was when this cycle started
    inserted                    \* ids ever inserted into the store

\* The state of one run of get_transactions: the two fork-join fetches.
VARIABLES
    fetch_pc,                   \* position in get_transactions
    main_accounts,              \* MAIN_ACCOUNTS: the items (acc_name, acc_id) in dict order
    pot_accounts,               \* POT_ACCOUNTS: the values (acc_id, acc_name) in dict order
    running,                    \* tasks of the current gather that have not completed
    results,                    \* task index -> (acc_name, df) of the completed tasks
    finish_order,               \* the task indexes in the order the tasks completed
    transactions_dct,           \* the mapping get_main_transactions returned
    pot_transactions_dct,       \* the mapping get_pot_transactions returned
    fetched_df                  \* the frame get_transactions returns

PipelineVars == << pc, cycle, chunk_size, declined, db, sink, transactions_df, assets_ids_dict,
                   new_transactions_df, new_transactions_dct, start,
                   changed_transactions_ids, changed_transactions_df,
                   changed_transactions_dct, sent, log, db0, inserted >>

FetchVars == << fetch_pc, main_accounts, pot_accounts, running, results, finish_order,
                transactions_dct, pot_transactions_dct, fetched_df >>

\* The state of one call of apply_transformations on a fetched frame.
VARIABLES
    map_pc,                     \* position: before the call, returned, handled again
    raw_df,                     \* the frame get_transactions returned, nested columns merged
    canonical_df,               \* the frame apply_transformations returned
    notifications,              \* the alerts the Notifier sent during the call
    reapplied_df                \* canonical_df with the field handling applied once more

MapperVars == << map_pc, raw_df, canonical_df, notifications, reapplied_df >>

VARIABLES
    update_pc,                  \* position in update_changed_lunch_money_transactions
    transactions_dct_lst,       \* its argument: a list of payloads or one payload
    isinstance_list,            \* isinstance(transactions_dct_lst, list)
    update_start,               \* the loop variable start of the list branch
    puts                        \* the PUT requests made so far, in order

ExporterVars == << update_pc, transactions_dct_lst, isinstance_list, update_start, puts >>

vars == << PipelineVars, FetchVars, MapperVars, ExporterVars >>

\* --------------------------------------------------------------- helpers
Empty == << >>

Min(a, b) == IF a < b THEN a ELSE b

MinOf(S) == CHOOSE x \in S : \A y \in S : x <= y

RECURSIVE SeqOf(_)
\* Row order of a dataframe: the mapper's order, which the ids are numbered in.
SeqOf(S) == IF S = {} THEN << >> ELSE << MinOf(S) >> \o SeqOf(S \ {MinOf(S)})

RECURSIVE Flatten(_)
\* The concatenation of a sequence of sequences.
Flatten(ss) == IF ss = << >> THEN << >> ELSE Head(ss) \o Flatten(Tail(ss))

Range(s) == { s[k] : k \in 1 .. Len(s) }

Restrict(f, S) == [i \in (DOMAIN f) \cap S |-> f[i]]

Ev(op, ids, lm, res) == [op |-> op, ids |-> ids, lm |-> lm, res |-> res]

EventsOf(op) == { k \in 1 .. Len(log) : log[k].op = op }

\* ------------------------------------------------ the store (Db) and library
\* Db.insert(table, df): the rows of df are added; a frame without a
\* lunch_money_id column leaves that column NULL.
db_insert(table, df) ==
    [i \in (DOMAIN table) \cup (DOMAIN df) |->
        IF i \in DOMAIN df
        THEN [id |-> df[i].id, notes |-> df[i].notes, decline |-> df[i].decline,
              source |-> df[i].source, category |-> df[i].category,
              lunch_money_id |-> IF "lunch_money_id" \in DOMAIN df[i]
                                 THEN df[i].lunch_money_id ELSE NULL]
        ELSE table[i]]

\* Db.delete(table, ids): the rows with these ids are removed.
db_delete(table, ids) == Restrict(table, (DOMAIN table) \ ids)

\* The fields the store compares a fetched record with.
TrackedEqual(row, rec) ==
    /\ row.notes = rec.notes
    /\ row.decline = rec.decline
    /\ row.source = rec.source

\* monzo_api_wrapper.upload_transactions.get_new_transactions: the fetched
\* records whose id the store does not hold.
get_new_transactions(table, fetched_transactions) ==
    Restrict(fetched_transactions, (DOMAIN fetched_transactions) \ (DOMAIN table))

\* monzo_api_wrapper.upload_transactions.get_changed_transaction_ids: the ids the
\* store holds with at least one tracked field different from the fetched one.
get_changed_transaction_ids(table, fetched_transactions) ==
    { i \in (DOMAIN fetched_transactions) \cap (DOMAIN table) :
        ~TrackedEqual(table[i], fetched_transactions[i]) }

\* ------------------------------------------------------ reconciliation engine
identify_new_transactions_all(table, df) == df

identify_new_transactions(table, df) == get_new_transactions(table, df)

identify_changed_transactions_all(ids, df) == df

identify_changed_transactions(ids, df) == Restrict(df, ids)

\* ---------------------------------------------------------- store exporters
upload_new_transactions_undeclined(table, new_df) ==
    db_insert(table, Restrict(new_df, { i \in DOMAIN new_df : new_df[i].decline = 0 }))

\* db.insert(table=DB_TABLE, df=new_transactions_df)
upload_new_transactions(table, new_df) == db_insert(table, new_df)

get_lunch_money_id(table, monzo_transaction_id) ==
    IF monzo_transaction_id \in DOMAIN table
    THEN table[monzo_transaction_id].lunch_money_id
    ELSE NULL

\* A reinsert that does not look the sink ids up.
add_lunch_money_ids_none(table, changed_transactions) ==
    [i \in DOMAIN changed_transactions |->
        [id |-> changed_transactions[i].id,
         notes |-> changed_transactions[i].notes,
         decline |-> changed_transactions[i].decline,
         source |-> changed_transactions[i].source,
         category |-> changed_transactions[i].category,
         lunch_money_id |-> NULL]]

add_lunch_money_ids(table, changed_transactions) ==
    [i \in DOMAIN changed_transactions |->
        [id |-> changed_transactions[i].id,
         notes |-> changed_transactions[i].notes,
         decline |-> changed_transactions[i].decline,
         source |-> changed_transactions[i].source,
         category |-> changed_transactions[i].category,
         lunch_money_id |-> get_lunch_money_id(table, changed_transactions[i].id)]]

update_db_transactions_id(table, transactions_id_map) ==
    [i \in DOMAIN table |->
        IF i \in DOMAIN transactions_id_map
        THEN [table[i] EXCEPT !.lunch_money_id = transactions_id_map[i]]
        ELSE table[i]]

\* ------------------------------------------------------------- sink adapter
\* Series.map(dict).astype(int) raises when a source has no entry.
map_asset_id_raises(df, assets) == \E i \in DOMAIN df : df[i].source \notin DOMAIN assets

map_asset_id(rec, assets) == assets[rec.source]

\* Series.map(dict) alone: a category without an entry gives NaN, which
\* dataframe_to_dict writes as null.
map_category_id(rec, categories) ==
    IF rec.category \in DOMAIN categories THEN categories[rec.category] ELSE NULL

filter_declined_transactions_none(df) == df

filter_declined_transactions(df) == Restrict(df, { i \in DOMAIN df : df[i].decline = 0 })

select_final_new_columns(rec, assets) ==
    [notes |-> rec.notes, category_id |-> map_category_id(rec, categories_dict),
     external_id |-> rec.id, asset_id |-> map_asset_id(rec, assets)]

select_final_update_columns(rec, assets) ==
    [lunch_money_id |-> rec.lunch_money_id, notes |-> rec.notes,
     category_id |-> map_category_id(rec, categories_dict),
     external_id |-> rec.id, asset_id |-> map_asset_id(rec, assets)]

\* dataframe_to_dict: one dict per row, in row order.
get_new_lunch_money_transactions_dct(df, assets) ==
    LET kept == filter_declined_transactions(df)
        order == SeqOf(DOMAIN kept)
    IN  [k \in 1 .. Len(order) |-> select_final_new_columns(kept[order[k]], assets)]

get_changed_lunch_money_transactions_dct(df, assets) ==
    LET order == SeqOf(DOMAIN df)
    IN  [k \in 1 .. Len(order) |-> select_final_update_columns(df[order[k]], assets)]

ExternalIds(payloads) == [k \in 1 .. Len(payloads) |-> payloads[k].external_id]

\* ------------------------------------------------- control flow of __main__
\* results = await asyncio.gather(*tasks) inside asyncio.run(...): a failed fetch
\* raises out of get_transactions.
get_transactions_swallow == "identify_new_transactions"

get_transactions_except == "aborted"

\* if len(new_transactions_df) > 0: the store insert comes first.
after_identify_new_skip_store(n) ==
    IF n > 0 THEN "get_new_lunch_money_transactions_dct" ELSE "get_changed_transaction_ids"

after_identify_new(n) ==
    IF n > 0 THEN "upload_new_transactions" ELSE "get_changed_transaction_ids"

\* except Exception as e: raise Exception(...) from e
upload_new_transactions_swallow == "get_new_lunch_money_transactions_dct"

upload_new_transactions_except == "aborted"

\* except Exception: raise Exception(...) from None
update_changed_transactions_except == "aborted"

\* send_payload: except requests.RequestException as e:
\*     raise UpdateChangedTransactionsError(...) from e
send_payload_swallow == "update_changed_lunch_money_transactions"

send_payload_except == "aborted"

\* for start in range(0, len(transactions_dct_lst), chunk_size)
after_chunk(next_start, n) ==
    IF next_start < n THEN "upload_new_lunch_money_transactions"
    ELSE "get_changed_transaction_ids"

\* The fetch variables while the cycle is followed from the fetched frame on.
FetchIdle ==
    /\ fetch_pc = "idle"
    /\ main_accounts = << >>
    /\ pot_accounts = << >>
    /\ running = {}
    /\ results = Empty
    /\ finish_order = << >>
    /\ transactions_dct = << >>
    /\ pot_transactions_dct = << >>
    /\ fetched_df = << >>

\* The mapper variables while the cycle is followed from the canonical records on.
MapperIdle ==
    /\ map_pc = "idle"
    /\ raw_df = << >>
    /\ canonical_df = << >>
    /\ notifications = << >>
    /\ reapplied_df = << >>

\* The sink update exporter while it is not followed on its own.
ExporterIdle ==
    /\ update_pc = "idle"
    /\ transactions_dct_lst = << >>
    /\ isinstance_list = TRUE
    /\ update_start = 0
    /\ puts = << >>

CycleLocals == << transactions_df, assets_ids_dict, declined, new_transactions_df,
                  new_transactions_dct, start, changed_transactions_ids,
                  changed_transactions_df, changed_transactions_dct, sent >>

Init ==
    /\ pc = "get_transactions"
    /\ cycle = 1
    /\ chunk_size \in 1 .. MaxChunk
    /\ db = Empty
    /\ sink = [i \in Ids |-> 0]
    /\ transactions_df = Empty
    /\ assets_ids_dict \in AssetTables
    /\ declined \in SUBSET Ids
    /\ new_transactions_df = Empty
    /\ new_transactions_dct = << >>
    /\ start = 0
    /\ changed_transactions_ids = {}
    /\ changed_transactions_df = Empty
    /\ changed_transactions_dct = << >>
    /\ sent = 0
    /\ log = << >>
    /\ db0 = Empty
    /\ inserted = {}
    /\ FetchIdle
    /\ MapperIdle
    /\ ExporterIdle

\* get_transactions + apply_transformations: the canonical records of the cycle,
\* keyed by id (the source system's ids are globally unique); any subset of the ids
\* may be in the lookback window, with any notes.  asyncio.gather re-raises the
\* exception of a per-account fetch, whatever the other fetches returned, and
\* nothing between the fetch and the end of __main__ catches it.
GetTransactions ==
    /\ pc = "get_transactions"
    /\ \/ \E S \in SUBSET Ids :
            \E n \in [S -> NotesValues] :
              /\ transactions_df' =
                   [i \in S |-> [id |-> i, notes |-> n[i],
                                 decline |-> add_decline_column(DeclineReasonOf(i \in declined)),
                                 category |-> CategoryOf(i),
                                 source |-> SourceOf(i)]]
              /\ pc' = IF S = {} THEN "done" ELSE "identify_new_transactions"
              /\ UNCHANGED log
       \/ \E failed \in (SUBSET Sources) \ {{}} :
            \* the accounts in failed raise; what the others return is discarded
            /\ log' = Append(log, Ev("get_transactions", << >>, << >>, "fail"))
            /\ pc' = get_transactions_except
            /\ UNCHANGED transactions_df
    /\ UNCHANGED << cycle, chunk_size, declined, db, sink, assets_ids_dict,
                    new_transactions_df, new_transactions_dct, start,
                    changed_transactions_ids, changed_transactions_df,
                    changed_transactions_dct, sent, db0, inserted >>
    /\ UNCHANGED << FetchVars, MapperVars, ExporterVars >>

IdentifyNewTransactions ==
    /\ pc = "identify_new_transactions"
    /\ new_transactions_df' = identify_new_transactions(db, transactions_df)
    /\ pc' = after_identify_new(Cardinality(DOMAIN new_transactions_df'))
    /\ UNCHANGED << cycle, chunk_size, declined, db, sink, transactions_df, assets_ids_dict,
                    new_transactions_dct, start, changed_transactions_ids,
                    changed_transactions_df, changed_transactions_dct, sent, log, db0,  inserted >>
    /\ UNCHANGED << FetchVars, MapperVars, ExporterVars >>

\* upload_new_transactions: db.insert of the new records, or the raised error.
UploadNewTransactions ==
    /\ pc = "upload_new_transactions"
    /\ LET ids == SeqOf(DOMAIN new_transactions_df)
       IN  \/ /\ db' = upload_new_transactions(db, new_transactions_df)
              /\ inserted' = inserted \cup ((DOMAIN db') \ (DOMAIN db))
              /\ log' = Append(log, Ev("db_insert_new", ids, << >>, "ok"))
              /\ pc' = "get_new_lunch_money_transactions_dct"
           \/ /\ log' = Append(log, Ev("db_insert_new", ids, << >>, "fail"))
              /\ pc' = upload_new_transactions_except
              /\ UNCHANGED << db, inserted >>
    /\ UNCHANGED << cycle, chunk_size, sink, CycleLocals, db0 >>
    /\ UNCHANGED << FetchVars, MapperVars, ExporterVars >>

GetNewLunchMoneyTransactionsDct ==
    /\ pc = "get_new_lunch_money_transactions_dct"
    /\ IF map_asset_id_raises(new_transactions_df, assets_ids_dict)
       THEN /\ pc' = "aborted"
            /\ log' = Append(log, Ev("get_new_dct", << >>, << >>, "raise"))
            /\ UNCHANGED << new_transactions_dct, start >>
       ELSE /\ new_transactions_dct' =
                 get_new_lunch_money_transactions_dct(new_transactions_df, assets_ids_dict)
            /\ start' = 0
            /\ log' = Append(log, Ev("get_new_dct", ExternalIds(new_transactions_dct'),
                                      << >>, "ok"))
            /\ pc' = after_chunk(0, Len(new_transactions_dct'))
    /\ UNCHANGED << cycle, chunk_size, declined, db, sink, transactions_df, assets_ids_dict,
                    new_transactions_df, changed_transactions_ids,
                    changed_transactions_df, changed_transactions_dct, sent, db0, inserted >>
    /\ UNCHANGED << FetchVars, MapperVars, ExporterVars >>

\* The sink assigns a fresh id to every record it creates: the n-th record created
\* for external_id i gets an id no other record has, and never NULL.
SinkId(i, n) == i + MaxId * n

\* The responses of POST transactions that process_transaction_chunk tells apart.
CreateOutcomes == {"ids", "empty_ids", "error", "no_ids", "transport"}

\* A write-back that pairs the first record with the last id of the response.
lunch_money_id_monzo_id_map_last(chunk, ids) ==
    [i \in {chunk[1].external_id} |-> ids[Len(ids)]]

\* lunch_money_id_monzo_id_map = {chunk[0]["external_id"]: response_data["ids"][0]}
lunch_money_id_monzo_id_map(chunk, ids) == [i \in {chunk[1].external_id} |-> ids[1]]

\* One iteration of the chunk loop: process_transaction_chunk on
\* transactions_dct_lst[start : start + chunk_size].
ProcessTransactionChunk ==
    /\ pc = "upload_new_lunch_money_transactions"
    /\ start < Len(new_transactions_dct)
    /\ LET n == Len(new_transactions_dct)
           chunk == SubSeq(new_transactions_dct, start + 1, Min(start + chunk_size, n))
           ext == ExternalIds(chunk)
       IN  \E outcome \in CreateOutcomes :
             \/ /\ outcome = "ids"
                /\ LET ids == [k \in 1 .. Len(chunk) |-> SinkId(ext[k], sink[ext[k]])]
                   IN  /\ db' = update_db_transactions_id(
                                    db, lunch_money_id_monzo_id_map(chunk, ids))
                       /\ log' = Append(log, Ev("create", ext, ids, outcome))
                /\ sink' = [i \in Ids |-> IF i \in Range(ext) THEN sink[i] + 1 ELSE sink[i]]
                /\ start' = start + chunk_size
                /\ pc' = after_chunk(start', n)
             \/ /\ outcome = "empty_ids"
                \* response_data["ids"][0] raises IndexError, which no except clause catches
                /\ log' = Append(log, Ev("create", ext, << >>, outcome))
                /\ pc' = "aborted"
                /\ UNCHANGED << db, sink, start >>
             \/ /\ outcome \in {"error", "no_ids", "transport"}
                \* logged by one of the two except clauses or the warning; no retry
                /\ log' = Append(log, Ev("create", ext, << >>, "logged"))
                /\ start' = start + chunk_size
                /\ pc' = after_chunk(start', n)
                /\ UNCHANGED << db, sink >>
    /\ UNCHANGED << cycle, chunk_size, declined, transactions_df, assets_ids_dict,
                    new_transactions_df, new_transactions_dct, changed_transactions_ids,
                    changed_transactions_df, changed_transactions_dct, sent, db0, inserted >>
    /\ UNCHANGED << FetchVars, MapperVars, ExporterVars >>

\* get_changed_transaction_ids, then identify_changed_transactions when any.
GetChangedTransactionIds ==
    /\ pc = "get_changed_transaction_ids"
    /\ changed_transactions_ids' = get_changed_transaction_ids(db, transactions_df)
    /\ log' = Append(log, Ev("get_changed_transaction_ids",
                              SeqOf(changed_transactions_ids'), << >>, "ok"))
    /\ IF changed_transactions_ids' = {}
       THEN /\ pc' = "done"
            /\ UNCHANGED changed_transactions_df
       ELSE /\ changed_transactions_df' =
                 identify_changed_transactions(changed_transactions_ids', transactions_df)
            /\ pc' = "update_changed_transactions"
    /\ UNCHANGED << cycle, chunk_size, declined, db, sink, transactions_df, assets_ids_dict,
                    new_transactions_df, new_transactions_dct, start,
                    changed_transactions_dct, sent, db0,  inserted >>
    /\ UNCHANGED << FetchVars, MapperVars, ExporterVars >>

\* update_changed_transactions: add_lunch_money_ids, then db.delete and db.insert
\* inside one try block; either call may raise.
UpdateChangedTransactions ==
    /\ pc = "update_changed_transactions"
    /\ LET df == add_lunch_money_ids(db, changed_transactions_df)
           ids == SeqOf(DOMAIN df)
       IN  /\ changed_transactions_df' = df
           /\ \/ /\ log' = Append(log, Ev("db_delete", ids, << >>, "fail"))
                 /\ pc' = update_changed_transactions_except
                 /\ UNCHANGED db
              \/ /\ db' = db_delete(db, DOMAIN df)
                 /\ log' = log \o << Ev("db_delete", ids, << >>, "ok"),
                                     Ev("db_insert_changed", ids, << >>, "fail") >>
                 /\ pc' = update_changed_transactions_except
              \/ /\ db' = db_insert(db_delete(db, DOMAIN df), df)
                 /\ log' = log \o << Ev("db_delete", ids, << >>, "ok"),
                                     Ev("db_insert_changed", ids, << >>, "ok") >>
                 /\ pc' = "get_changed_lunch_money_transactions_dct"
    /\ UNCHANGED << cycle, chunk_size, declined, sink, transactions_df, assets_ids_dict,
                    new_transactions_df, new_transactions_dct, start,
                    changed_transactions_ids, changed_transactions_dct, sent, db0,  inserted >>
    /\ UNCHANGED << FetchVars, MapperVars, ExporterVars >>

GetChangedLunchMoneyTransactionsDct ==
    /\ pc = "get_changed_lunch_money_transactions_dct"
    /\ IF map_asset_id_raises(changed_transactions_df, assets_ids_dict)
       THEN /\ pc' = "aborted"
            /\ log' = Append(log, Ev("get_changed_dct", << >>, << >>, "raise"))
            /\ UNCHANGED << changed_transactions_dct, sent >>
       ELSE /\ changed_transactions_dct' =
                 get_changed_lunch_money_transactions_dct(changed_transactions_df,
                                                          assets_ids_dict)
            /\ sent' = 0
            /\ log' = Append(log, Ev("get_changed_dct",
                                      ExternalIds(changed_transactions_dct'), << >>, "ok"))
            /\ pc' = "update_changed_lunch_money_transactions"
    /\ UNCHANGED << cycle, chunk_size, declined, db, sink, transactions_df, assets_ids_dict,
                    new_transactions_df, new_transactions_dct, start,
                    changed_transactions_ids, changed_transactions_df, db0, 
                    inserted >>
    /\ UNCHANGED << FetchVars, MapperVars, ExporterVars >>

\* One iteration of update_changed_lunch_money_transactions on a list: send_payload
\* to PUT transactions/{lunch_money_id}; a transport failure raises.
SendPayload ==
    /\ pc = "update_changed_lunch_money_transactions"
    /\ sent < Len(changed_transactions_dct)
    /\ LET payload == changed_transactions_dct[sent + 1]
       IN  \/ /\ log' = Append(log, Ev("update", << payload.external_id >>,
                                        << payload.lunch_money_id >>, "ok"))
              /\ sent' = sent + 1
              /\ pc' = IF sent' < Len(changed_transactions_dct)
                       THEN "update_changed_lunch_money_transactions" ELSE "done"
           \/ /\ log' = Append(log, Ev("update", << payload.external_id >>,
                                        << payload.lunch_money_id >>, "transport"))
              /\ pc' = send_payload_except
              /\ UNCHANGED sent
    /\ UNCHANGED << cycle, chunk_size, declined, db, sink, transactions_df, assets_ids_dict,
                    new_transactions_df, new_transactions_dct, start,
                    changed_transactions_ids, changed_transactions_df,
                    changed_transactions_dct, db0,  inserted >>
    /\ UNCHANGED << FetchVars, MapperVars, ExporterVars >>

\* The process ends (normally or with the raised error) and is run again later.
NextCycle ==
    /\ pc \in {"done", "aborted"}
    /\ cycle < MaxCycles
    /\ cycle' = cycle + 1
    /\ pc' = "get_transactions"
    /\ transactions_df' = Empty
    /\ new_transactions_df' = Empty
    /\ new_transactions_dct' = << >>
    /\ start' = 0
    /\ changed_transactions_ids' = {}
    /\ changed_transactions_df' = Empty
    /\ changed_transactions_dct' = << >>
    /\ sent' = 0
    /\ log' = << >>
    /\ db0' = db
    /\ UNCHANGED << chunk_size, declined, assets_ids_dict, db, sink, inserted >>
    /\ UNCHANGED << FetchVars, MapperVars, ExporterVars >>

Next ==
    \/ GetTransactions
    \/ IdentifyNewTransactions
    \/ UploadNewTransactions
    \/ GetNewLunchMoneyTransactionsDct
    \/ ProcessTransactionChunk
    \/ GetChangedTransactionIds
    \/ UpdateChangedTransactions
    \/ GetChangedLunchMoneyTransactionsDct
    \/ SendPayload
    \/ NextCycle

Spec == Init /\ [][Next]_vars

\* The row an earlier run left in the store: transaction 1, inserted as new and
\* created in the sink, which returned its first id for it.
StoredRow ==
    [id |-> 1, notes |-> "lunch", decline |-> 0, source |-> SourceOf(1),
     category |-> CategoryOf(1), lunch_money_id |-> SinkId(1, 0)]

\* A run that starts on the store and the sink that earlier run left.
InitStored ==
    /\ pc = "get_transactions"
    /\ cycle = 1
    /\ chunk_size \in 1 .. MaxChunk
    /\ db = [i \in {1} |-> StoredRow]
    /\ sink = [i \in Ids |-> IF i = 1 THEN 1 ELSE 0]
    /\ transactions_df = Empty
    /\ assets_ids_dict \in AssetTables
    /\ declined \in SUBSET (Ids \ {1})
    /\ new_transactions_df = Empty
    /\ new_transactions_dct = << >>
    /\ start = 0
    /\ changed_transactions_ids = {}
    /\ changed_transactions_df = Empty
    /\ changed_transactions_dct = << >>
    /\ sent = 0
    /\ log = << >>
    /\ db0 = db
    /\ inserted = {1}
    /\ FetchIdle
    /\ MapperIdle
    /\ ExporterIdle

SpecStored == InitStored /\ [][Next]_vars

\* ------------------------------------------- the fork-join fetch, task by task
MaxAccounts == 2    \* at most MaxAccounts main accounts and MaxAccounts pots

MainNames == << "Personal", "Joint", "Business" >>

PotNames == {"Savings", "Holiday"}

\* MAIN_ACCOUNTS is a JSON object acc_name -> acc_id: its keys are distinct.
MainAccountConfigs ==
    { [k \in 1 .. n |-> [acc_name |-> MainNames[k], acc_id |-> k]] : n \in 1 .. MaxAccounts }

\* POT_ACCOUNTS is a JSON object whose values are (acc_id, acc_name) pairs: the
\* names are free text and nothing keeps two pots from having the same one.
PotAccountConfigs ==
    UNION { { [k \in 1 .. n |-> [acc_id |-> MaxAccounts + k, acc_name |-> names[k]]] :
                names \in [1 .. n -> PotNames] } : n \in 1 .. MaxAccounts }

\* monzo_api_wrapper.get_transactions.get_transactions_df: the rows of one account,
\* every row carrying the account name as its source.
get_transactions_df(account_id, account_name) ==
    << [account_id |-> account_id, source |-> account_name] >>

\* Python dict assignment d[key] = value: a known key keeps its position and takes
\* the new value, a new key is appended.
dict_setitem(d, key, value) ==
    IF \E j \in 1 .. Len(d) : d[j].key = key
    THEN [j \in 1 .. Len(d) |-> IF d[j].key = key THEN [key |-> key, value |-> value]
                                ELSE d[j]]
    ELSE Append(d, [key |-> key, value |-> value])

RECURSIVE dict(_)
\* dict(results) on a list of (key, value) pairs.
dict(pairs) ==
    IF pairs = << >> THEN << >>
    ELSE dict_setitem(dict(SubSeq(pairs, 1, Len(pairs) - 1)),
                      pairs[Len(pairs)].key, pairs[Len(pairs)].value)

\* asyncio.gather(*tasks): the list of results in the order of the tasks.
gather(res, order) == [k \in 1 .. Len(order) |-> res[k]]

\* pd.concat([pd.DataFrame(dct) for dct in d.values()], ignore_index=True)
get_main_transsactions_df(main_transactions_dct) ==
    Flatten([k \in 1 .. Len(main_transactions_dct) |-> main_transactions_dct[k].value])

get_pot_transsactions_df(pot_dct) ==
    Flatten([k \in 1 .. Len(pot_dct) |-> pot_dct[k].value])

\* The (acc_name, df) pair task k of the current gather returns.
fetch_transactions(k) ==
    IF fetch_pc = "get_main_transactions"
    THEN [key |-> main_accounts[k].acc_name,
          value |-> get_transactions_df(main_accounts[k].acc_id, main_accounts[k].acc_name)]
    ELSE [key |-> pot_accounts[k].acc_name,
          value |-> get_transactions_df(pot_accounts[k].acc_id,
                                        << pot_accounts[k].acc_name, "Pot" >>)]

\* The pipeline variables while only the fetch is followed.
PipelineIdle ==
    /\ pc = "get_transactions"
    /\ cycle = 1
    /\ chunk_size = 1
    /\ db = Empty
    /\ sink = [i \in Ids |-> 0]
    /\ transactions_df = Empty
    /\ assets_ids_dict = [s \in Sources |-> IF s = "Main" THEN 11 ELSE 12]
    /\ declined = {}
    /\ new_transactions_df = Empty
    /\ new_transactions_dct = << >>
    /\ start = 0
    /\ changed_transactions_ids = {}
    /\ changed_transactions_df = Empty
    /\ changed_transactions_dct = << >>
    /\ sent = 0
    /\ log = << >>
    /\ db0 = Empty
    /\ inserted = {}

\* get_transactions is entered: the tasks of get_main_transactions are created.
InitFetch ==
    /\ PipelineIdle
    /\ MapperIdle
    /\ ExporterIdle
    /\ fetch_pc = "get_main_transactions"
    /\ main_accounts \in MainAccountConfigs
    /\ pot_accounts \in PotAccountConfigs \cup {<< >>}
    /\ running = 1 .. Len(main_accounts)
    /\ results = Empty
    /\ finish_order = << >>
    /\ transactions_dct = << >>
    /\ pot_transactions_dct = << >>
    /\ fetched_df = << >>

InGather == fetch_pc \in {"get_main_transactions", "get_pot_transactions"}

\* The blocking call of one task returns in its thread, at any moment.
TaskReturns ==
    /\ InGather
    /\ \E k \in running :
         /\ running' = running \ {k}
         /\ results' = [j \in (DOMAIN results) \cup {k} |->
                           IF j = k THEN fetch_transactions(k) ELSE results[j]]
         /\ finish_order' = Append(finish_order, k)
    /\ UNCHANGED << fetch_pc, main_accounts, pot_accounts, transactions_dct,
                    pot_transactions_dct, fetched_df >>
    /\ UNCHANGED << PipelineVars, MapperVars, ExporterVars >>

\* The blocking call of one task raises: gather re-raises it to its awaiter and
\* asyncio.run lets it leave get_transactions.
TaskRaises ==
    /\ InGather
    /\ \E k \in running :
         /\ running' = running \ {k}
         /\ finish_order' = Append(finish_order, k)
    /\ fetch_pc' = "raised"
    /\ UNCHANGED << main_accounts, pot_accounts, results, transactions_dct,
                    pot_transactions_dct, fetched_df >>
    /\ UNCHANGED << PipelineVars, MapperVars, ExporterVars >>

\* results = await asyncio.gather(*tasks); return dict(results); then
\* get_main_transsactions_df, and the pot tasks when pots are included.
MainGatherReturns ==
    /\ fetch_pc = "get_main_transactions"
    /\ running = {}
    /\ transactions_dct' = dict(gather(results, finish_order))
    /\ fetched_df' = get_main_transsactions_df(transactions_dct')
    /\ IF pot_accounts = << >>
       THEN /\ fetch_pc' = "returned"
            /\ UNCHANGED << running, results, finish_order >>
       ELSE /\ fetch_pc' = "get_pot_transactions"
            /\ running' = 1 .. Len(pot_accounts)
            /\ results' = Empty
            /\ finish_order' = << >>
    /\ UNCHANGED << main_accounts, pot_accounts, pot_transactions_dct >>
    /\ UNCHANGED << PipelineVars, MapperVars, ExporterVars >>

\* The same for the pots, then pd.concat([transactions_df, pot_transactions_df]).
PotGatherReturns ==
    /\ fetch_pc = "get_pot_transactions"
    /\ running = {}
    /\ pot_transactions_dct' = dict(gather(results, finish_order))
    /\ fetched_df' = fetched_df \o get_pot_transsactions_df(pot_transactions_dct')
    /\ fetch_pc' = "returned"
    /\ UNCHANGED << main_accounts, pot_accounts, running, results, finish_order,
                    transactions_dct >>
    /\ UNCHANGED << PipelineVars, MapperVars, ExporterVars >>

NextFetch ==
    \/ TaskReturns
    \/ TaskRaises
    \/ MainGatherReturns
    \/ PotGatherReturns

SpecFetch == InitFetch /\ [][NextFetch]_vars

\* ------------------------------------------ apply_transformations, step by step
MaxRows == 2        \* frames of several rows have at most MaxRows rows

\* Amounts are exact fractions n / d; the bank sends integers of minor units.
Frac(a) == [n |-> a, d |-> 1]

FracEq(x, y) == x.n * y.d = y.n * x.d

\* -x / 100
NegDiv100(x) == [n |-> 0 - x.n, d |-> x.d * 100]

\* str.lower() on the currency codes; a missing value stays missing.
str_lower(x) ==
    CASE x = "GBP" -> "gbp"
      [] x = "USD" -> "usd"
      [] OTHER -> x

LowercaseCodes == {"gbp", "usd"}

\* str.replace("_", " ") on the category strings.
str_replace_underscore(x) ==
    CASE x = "eating_out" -> "eating out"
      [] OTHER -> x

\* str.title() on the category strings: the first letter of every word in upper
\* case, every other letter in lower case.
str_title(x) ==
    CASE x = "groceries" -> "Groceries"
      [] x = "eating out" -> "Eating Out"
      [] x = "mystery" -> "Mystery"
      [] x = "ISA" -> "Isa"
      [] OTHER -> x

\* str.startswith("PB"); on a missing value the result is missing, which np.where
\* takes as true.
str_startswith_PB(x) == x \in {"PB 0042", "PB Stores", NaN}

all_categories ==
    {"Education", "Clothes", "Withdrawals", "Gym", "Hotels", "Healthcare", "ISA", "Bills",
     "Entertainment", "Transfers", "Eating Out", "Savings", "Travel", "Subscriptions",
     "Groceries", "Income", "Gifts", "Home", "Crypto", "Pets", "Transport", "Fees",
     "Shopping"}

\* MONZO_CATEGORIES_PATH as read by get_categories: custom category id -> name.
category_replacements_dct == [c \in {"category_0001"} |-> "ISA"]

\* pot_account_ids.json as read by get_pot_acc_names: pot id -> pot name.
pot_id_names_dct == [p \in {"pot_0001"} |-> "Holiday Fund"]

\* amount = -amount / 100; local_amount = -local_amount / 100
format_amounts(row) ==
    [row EXCEPT !.amount = NegDiv100(@), !.local_amount = NegDiv100(@)]

\* np.where(local_currency != "GBP", local_currency.str.lower(), currency.str.lower())
set_amount_currency(row) ==
    [row EXCEPT !.currency = IF row.local_currency # "GBP"
                             THEN str_lower(row.local_currency)
                             ELSE str_lower(row.currency)]

\* A value that is always the account-currency amount.
set_amount_value_account(row) == row

\* np.where(local_currency == "GBP", amount, local_amount)
set_amount_value(row) ==
    [row EXCEPT !.amount = IF row.local_currency = "GBP" THEN row.amount
                           ELSE row.local_amount]

\* np.where(merchant_description.notnull(), merchant_description, description)
set_descriptions(row) ==
    [row EXCEPT !.description = IF row.merchant_description # NaN
                                THEN row.merchant_description ELSE row.description]

\* np.where(~description.map(pot_id_names_dct).isna(), the mapped name, description)
map_pot_acc_ids(row, pot_names) ==
    [row EXCEPT !.description = IF row.description \in DOMAIN pot_names
                                THEN pot_names[row.description] ELSE row.description]

\* A mapper without the PB rule.
replace_pb_transactions_desc_keep(row) == row

\* np.where(description.str.startswith("PB"), notes, description)
replace_pb_transactions_desc(row) ==
    [row EXCEPT !.description = IF str_startswith_PB(row.description)
                                THEN row.notes ELSE row.description]

\* category.replace(category_replacements_dct), then "_" -> " " and title case.
format_category(category, replacements) ==
    LET replaced == IF category \in DOMAIN replacements THEN replacements[category]
                    ELSE category
    IN  IF replaced = NaN THEN NaN ELSE str_title(str_replace_underscore(replaced))

format_categories(row, replacements) ==
    [row EXCEPT !.category = format_category(@, replacements)]

\* The decline column added to a row.
with_decline_column(row) ==
    [f \in (DOMAIN row) \cup {"decline"} |->
        IF f = "decline" THEN add_decline_column(row.decline_reason) ELSE row[f]]

\* timestamp = pd.to_datetime(date); date = pd.to_datetime(date).dt.date: two
\* instants of the model fall on one calendar day.
format_date_columns(row) ==
    [f \in (DOMAIN row) \cup {"timestamp"} |->
        CASE f = "timestamp" -> row.date
          [] f = "date" -> row.date \div 2
          [] OTHER -> row[f]]

Perms(n) == { p \in [1 .. n -> 1 .. n] : \A i, j \in 1 .. n : i # j => p[i] # p[j] }

\* sort_values("timestamp", ascending=False) with the default, unstable sort: any
\* arrangement of the rows with the timestamps from latest to earliest.
sort_by_timestamp_descending(df) ==
    { sorted \in { [k \in 1 .. Len(df) |-> df[p[k]]] : p \in Perms(Len(df)) } :
        \A k \in 1 .. (Len(sorted) - 1) : sorted[k].timestamp >= sorted[k + 1].timestamp }

known_category(row) == row.category \in all_categories

unknown_category(row) == row.category \notin all_categories

\* The tuples the alert lists, one per row with an unknown category.
unknown_category_transactions(df) ==
    LET unknown == SelectSeq(df, unknown_category)
    IN  [k \in 1 .. Len(unknown) |->
            << unknown[k].id, unknown[k].date, unknown[k].category,
               unknown[k].description, unknown[k].source, unknown[k].decline >>]

\* if not category.isin(all_categories).all(): ntfy.notify(...) once
notify_unknown_category(df) ==
    IF \A k \in 1 .. Len(df) : known_category(df[k]) THEN << >>
    ELSE << unknown_category_transactions(df) >>

\* A mapper that alerts but keeps the rows.
drop_transactions_unknown_category_keep(df) == df

\* return transactions_df[transactions_df["category"].isin(all_categories)]
drop_transactions_unknown_category(df) == SelectSeq(df, known_category)

\* The selected columns (tags are left out of the model), under the frame's index.
select_cols(row) ==
    [idx |-> row.idx, id |-> row.id, date |-> row.date, description |-> row.description,
     timestamp |-> row.timestamp, amount |-> row.amount, category |-> row.category,
     notes |-> row.notes, decline_reason |-> row.decline_reason, decline |-> row.decline,
     currency |-> row.currency, source |-> row.source]

\* format_amounts .. set_tags on one row.
normalise_fields(row) ==
    set_descriptions(with_decline_column(set_amount_value(set_amount_currency(
        format_amounts(row)))))

\* map_pot_acc_ids, replace_pb_transactions_desc and format_date_columns on one row.
describe_and_date(row) ==
    format_date_columns(replace_pb_transactions_desc(map_pot_acc_ids(row, pot_id_names_dct)))

\* The category, description and amount handling on a row of the mapper's output:
\* format_amounts gets as far as its first assignment, the output has no
\* local_amount column.
reapply_handling(row) ==
    format_categories(
        replace_pb_transactions_desc(
            map_pot_acc_ids([row EXCEPT !.amount = NegDiv100(@)], pot_id_names_dct)),
        category_replacements_dct)

\* ------------------------------------------------------- the mapper's inputs
AmountPairs == { << 0 - 500, 0 - 500 >>, << 0 - 800, 0 - 1000 >>, << 250, 300 >> }

LocalCurrencies == {"GBP", "USD", NaN}

DeclineReasons == {NaN, "", "INSUFFICIENT_FUNDS"}

RawCategories == {"groceries", "eating_out", "category_0001", "mystery"}

RawDescriptions == {"Tesco", "pot_0001", "PB 0042"}

MerchantDescriptions == {NaN, "Tesco Stores", "PB Stores"}

Timestamps == 1 .. MaxRows

RawRow(id, date, source, amounts, lcur, reason, category, description, merchant, notes) ==
    [id |-> id, date |-> date, source |-> source,
     amount |-> Frac(amounts[1]), local_amount |-> Frac(amounts[2]),
     currency |-> "GBP", local_currency |-> lcur,
     decline_reason |-> reason, category |-> category,
     description |-> description, merchant_description |-> merchant,
     notes |-> notes]

\* One row with every combination of the fields the row-wise steps read.
FieldRows ==
    { RawRow(1, 1, "Main", a, lc, dr, c, d, md, n) :
        a \in AmountPairs, lc \in LocalCurrencies, dr \in DeclineReasons,
        c \in RawCategories, d \in RawDescriptions, md \in MerchantDescriptions,
        n \in NotesValues }

\* Rows that differ in what the frame-wise steps read: id, timestamp, category, source.
KeyRows ==
    { RawRow(i, t, src, << 0 - 500, 0 - 500 >>, "GBP", NaN, c, "Tesco", NaN, "lunch") :
        i \in Ids, t \in Timestamps, src \in Sources, c \in {"groceries", "mystery"} }

\* pd.concat(..., ignore_index=True): the rows are indexed by their position.
with_index(rows) ==
    [k \in 1 .. Len(rows) |->
        [f \in (DOMAIN rows[k]) \cup {"idx"} |-> IF f = "idx" THEN k ELSE rows[k][f]]]

\* An account returns a transaction id once; two accounts may return the same id.
OncePerAccount(rows) ==
    \A j, k \in 1 .. Len(rows) :
      (j # k /\ rows[j].id = rows[k].id) => rows[j].source # rows[k].source

InitMapper ==
    /\ PipelineIdle
    /\ FetchIdle
    /\ ExporterIdle
    /\ map_pc = "apply_transformations"
    /\ \/ \E r \in FieldRows : raw_df = with_index(<< r >>)
       \/ \E n \in 1 .. MaxRows :
            \E rows \in [1 .. n -> KeyRows] :
              OncePerAccount(rows) /\ raw_df = with_index(rows)
    /\ canonical_df = << >>
    /\ notifications = << >>
    /\ reapplied_df = << >>

\* transactions_df = apply_transformations(transactions_df)
ApplyTransformations ==
    /\ map_pc = "apply_transformations"
    /\ LET normalised == [k \in 1 .. Len(raw_df) |-> normalise_fields(raw_df[k])]
           dated == [k \in 1 .. Len(raw_df) |-> describe_and_date(normalised[k])]
       IN  \E sorted \in sort_by_timestamp_descending(dated) :
             LET formatted == [k \in 1 .. Len(sorted) |->
                                  format_categories(sorted[k], category_replacements_dct)]
                 kept == drop_transactions_unknown_category(formatted)
             IN  /\ notifications' = notify_unknown_category(formatted)
                 /\ canonical_df' = [k \in 1 .. Len(kept) |-> select_cols(kept[k])]
    /\ map_pc' = "returned"
    /\ UNCHANGED << raw_df, reapplied_df >>
    /\ UNCHANGED << PipelineVars, FetchVars, ExporterVars >>

\* The category, description and amount handling applied to the returned frame.
ReapplyHandling ==
    /\ map_pc = "returned"
    /\ reapplied_df' = [k \in 1 .. Len(canonical_df) |-> reapply_handling(canonical_df[k])]
    /\ map_pc' = "reapplied"
    /\ UNCHANGED << raw_df, canonical_df, notifications >>
    /\ UNCHANGED << PipelineVars, FetchVars, ExporterVars >>

NextMapper ==
    \/ ApplyTransformations
    \/ ReapplyHandling

SpecMapper == InitMapper /\ [][NextMapper]_vars

\* -------------------------------------------------- sink update exporter
\* update_changed_lunch_money_transactions followed on its own, on a list of
\* payloads of the changed-transaction adapter and on one such payload.

KeyError == "KeyError"

\* d[key] of a Python dict: a missing key raises KeyError.
dict_getitem(d, key) == IF key \in DOMAIN d THEN d[key] ELSE KeyError

\* url = base_url + f"transactions/{lunch_money_id}"
transactions_url(lunch_money_id) == << "transactions", lunch_money_id >>

\* A PUT request as send_payload makes it, with its outcome.
Put(url, transaction, res) == [url |-> url, transaction |-> transaction, res |-> res]

\* The sink ids a changed row can carry: none, or one the sink returned for it.
StoredSinkIds(i) == {NULL, SinkId(i, 0), SinkId(i, 1)}

ChangedRow(i, notes, lm) ==
    [id |-> i, notes |-> notes, decline |-> 0, source |-> SourceOf(i),
     category |-> CategoryOf(i), lunch_money_id |-> lm]

\* The frames update_changed_transactions hands on, lunch_money_id column added.
ChangedFrames ==
    UNION { { df \in [S -> UNION { { ChangedRow(i, n, lm) : n \in NotesValues,
                                        lm \in StoredSinkIds(i) } : i \in S }] :
                \A i \in S : df[i].id = i } : S \in (SUBSET Ids) \ {{}} }

InitExporter ==
    /\ PipelineIdle
    /\ FetchIdle
    /\ MapperIdle
    /\ update_pc = "update_changed_lunch_money_transactions"
    /\ \E df \in ChangedFrames :
         LET lst == get_changed_lunch_money_transactions_dct(df, assets_ids_dict)
         IN  \/ /\ isinstance_list = TRUE
                /\ transactions_dct_lst = lst
             \/ /\ isinstance_list = FALSE
                /\ \E k \in 1 .. Len(lst) : transactions_dct_lst = lst[k]
    /\ update_start = 0
    /\ puts = << >>

\* One iteration of the list branch: chunk = transactions_dct_lst[start : start + 1],
\* the target is chunk[0]["lunch_money_id"]; a failed request raises.
UpdateListIteration ==
    /\ update_pc = "update_changed_lunch_money_transactions"
    /\ isinstance_list
    /\ update_start < Len(transactions_dct_lst)
    /\ LET chunk == SubSeq(transactions_dct_lst, update_start + 1, update_start + 1)
           lunch_money_id == dict_getitem(chunk[1], "lunch_money_id")
           url == transactions_url(lunch_money_id)
       IN  \/ /\ puts' = Append(puts, Put(url, chunk[1], "ok"))
              /\ update_start' = update_start + 1
              /\ UNCHANGED update_pc
           \/ /\ puts' = Append(puts, Put(url, chunk[1], "transport"))
              /\ update_pc' = "raised"
              /\ UNCHANGED update_start
    /\ UNCHANGED << transactions_dct_lst, isinstance_list >>
    /\ UNCHANGED << PipelineVars, FetchVars, MapperVars >>

\* The range of the list branch is exhausted.
UpdateListReturns ==
    /\ update_pc = "update_changed_lunch_money_transactions"
    /\ isinstance_list
    /\ update_start >= Len(transactions_dct_lst)
    /\ update_pc' = "returned"
    /\ UNCHANGED << transactions_dct_lst, isinstance_list, update_start, puts >>
    /\ UNCHANGED << PipelineVars, FetchVars, MapperVars >>

\* The else branch: the target is transactions_dct_lst["transaction_id"].
UpdateDict ==
    /\ update_pc = "update_changed_lunch_money_transactions"
    /\ ~isinstance_list
    /\ LET lunch_money_id == dict_getitem(transactions_dct_lst, "transaction_id")
           url == transactions_url(lunch_money_id)
       IN  IF lunch_money_id = KeyError
           THEN /\ update_pc' = "raised"
                /\ UNCHANGED puts
           ELSE \/ /\ puts' = Append(puts, Put(url, transactions_dct_lst, "ok"))
                   /\ update_pc' = "returned"
                \/ /\ puts' = Append(puts, Put(url, transactions_dct_lst, "transport"))
                   /\ update_pc' = "raised"
    /\ UNCHANGED << transactions_dct_lst, isinstance_list, update_start >>
    /\ UNCHANGED << PipelineVars, FetchVars, MapperVars >>

NextExporter ==
    \/ UpdateListIteration
    \/ UpdateListReturns
    \/ UpdateDict

SpecExporter == InitExporter /\ [][NextExporter]_vars

\* ------------------------------------------------------------------ claims
NewIdentified == pc \notin {"get_transactions", "identify_new_transactions"}

ChangedDetected == EventsOf("get_changed_transaction_ids") # {}

NewIds == DOMAIN new_transactions_df

ChangedIds == DOMAIN changed_transactions_df

CreatedIds == UNION { Range(log[k].ids) : k \in EventsOf("create") }

Differs(i) == ~TrackedEqual(db0[i], transactions_df[i])

\* C1: in every cycle the ids handled as new are exactly the fetched ids the store
\* did not hold when the cycle started, the ids handled as changed are exactly the
\* fetched ids it held with a tracked field that differs, and no id is in both sets,
\* although the changed ids are computed after the new records were inserted.
C1_Partition ==
    /\ NewIds \cap ChangedIds = {}
    /\ NewIds \cap changed_transactions_ids = {}
    /\ NewIdentified => NewIds = (DOMAIN transactions_df) \ (DOMAIN db0)
    /\ ChangedDetected =>
         /\ changed_transactions_ids =
              { i \in (DOMAIN transactions_df) \cap (DOMAIN db0) : Differs(i) }
         /\ changed_transactions_ids # {} => ChangedIds = changed_transactions_ids

C1_Witness ==
    /\ pc = "update_changed_transactions"
    /\ NewIds # {}
    /\ ChangedIds # {}

\* C2 (as stated): every payload handed to the sink update call carries a non-null
\* lunch_money_id, and no payload handed to the sink create call has such a field.
C2_Original ==
    /\ \A k \in 1 .. Len(changed_transactions_dct) :
         changed_transactions_dct[k].lunch_money_id # NULL
    /\ \A k \in EventsOf("update") : log[k].lm[1] # NULL
    /\ \A k \in 1 .. Len(new_transactions_dct) :
         "lunch_money_id" \notin DOMAIN new_transactions_dct[k]

\* C3: an id fetched while the store lacks it is classified new and, when the store
\* insert succeeds, is in the store from then on in that cycle; an id the store
\* holds from an earlier cycle's insert as new, fetched now with edited notes, is
\* classified changed and not new, no create call carries it in this cycle, and
\* every update call for it follows its store delete and reinsert.
C3_NewThenChanged ==
    /\ NewIdentified => \A i \in (DOMAIN transactions_df) \ (DOMAIN db0) : i \in NewIds
    /\ (\E k \in EventsOf("db_insert_new") : log[k].res = "ok") => NewIds \subseteq DOMAIN db
    /\ DOMAIN db0 \subseteq inserted
    /\ \A i \in (DOMAIN db0) \cap (DOMAIN transactions_df) :
         transactions_df[i].notes # db0[i].notes =>
           /\ NewIdentified => i \notin NewIds
           /\ i \notin CreatedIds
           /\ ChangedDetected => i \in changed_transactions_ids /\ i \in ChangedIds
           /\ \A k \in EventsOf("update") :
                i \in Range(log[k].ids) =>
                  \E j \in 2 .. (k - 1) :
                    /\ log[j].op = "db_insert_changed" /\ log[j].res = "ok"
                    /\ i \in Range(log[j].ids)
                    /\ log[j - 1].op = "db_delete" /\ log[j - 1].res = "ok"
                    /\ i \in Range(log[j - 1].ids)

\* The second cycle updates in the sink an id the first cycle inserted as new.
C3_Witness ==
    /\ cycle = 2
    /\ \E i \in (DOMAIN db0) \cap (DOMAIN transactions_df) :
         /\ transactions_df[i].notes # db0[i].notes
         /\ \E k \in EventsOf("update") : log[k].ids = << i >> /\ log[k].res = "ok"

\* C4: no create call and no new payload carries a record whose decline flag is 1,
\* while the changed payloads cover every changed record, declined ones included.
C4_NoDeclinedCreate ==
    /\ \A i \in CreatedIds : transactions_df[i].decline = 0
    /\ \A k \in 1 .. Len(new_transactions_dct) :
         transactions_df[new_transactions_dct[k].external_id].decline = 0
    /\ pc = "update_changed_lunch_money_transactions" =>
         Range(ExternalIds(changed_transactions_dct)) = changed_transactions_ids

C4_Witness ==
    /\ \E i \in NewIds : transactions_df[i].decline = 1
    /\ CreatedIds # {}

StoreFailures ==
    { k \in 1 .. Len(log) :
        /\ log[k].op \in {"db_insert_new", "db_delete", "db_insert_changed"}
        /\ log[k].res = "fail" }

\* C5: once a cycle is past its store insert of the new records without a store
\* error, every declined new record has a store row with a null sink id, and no
\* create call of the cycle carries it; this still holds when the cycle ends.
C5_DeclinedNewStored ==
    \A i \in NewIds :
      ( /\ transactions_df[i].decline = 1
        /\ pc \notin {"get_transactions", "identify_new_transactions",
                      "upload_new_transactions"}
        /\ \A k \in EventsOf("db_insert_new") : log[k].res = "ok" ) =>
          /\ i \in DOMAIN db
          /\ db[i].lunch_money_id = NULL
          /\ i \notin CreatedIds

C5_Witness ==
    /\ pc = "done"
    /\ CreatedIds # {}
    /\ \E i \in NewIds : transactions_df[i].decline = 1 /\ i \in DOMAIN db

\* C6: within a cycle every create call follows the successful store insert of the
\* new records, every update call follows the successful store delete and reinsert
\* of the changed records, and changed detection follows the store insert and every
\* create call.
C6_Order ==
    /\ \A k \in EventsOf("create") :
         \E j \in 1 .. (k - 1) : log[j].op = "db_insert_new" /\ log[j].res = "ok"
    /\ \A k \in EventsOf("update") :
         \E j \in 2 .. (k - 1) :
           /\ log[j].op = "db_insert_changed" /\ log[j].res = "ok"
           /\ log[j - 1].op = "db_delete" /\ log[j - 1].res = "ok"
    /\ \A d \in EventsOf("get_changed_transaction_ids") :
         \A k \in EventsOf("create") \cup EventsOf("db_insert_new") \cup
                  EventsOf("get_new_dct") : k < d

C6_Witness ==
    /\ EventsOf("create") # {}
    /\ \E k \in EventsOf("update") : log[k].res = "ok"

\* C7 (as stated): at the end of every cycle, also one that ends in a fatal error,
\* the store holds a row for every id that was ever inserted.
C7_Original == pc \in {"done", "aborted"} => inserted \subseteq DOMAIN db

\* C8: a failed store write (insert of the new records, delete or insert of the
\* changed records) ends the cycle with the raised error, and no store or sink call
\* follows it in that cycle.
C8_StoreFailureStops ==
    \A k \in StoreFailures : pc = "aborted" /\ k = Len(log)

C8_Witness ==
    /\ StoreFailures # {}
    /\ pc = "aborted"
    /\ EventsOf("create") # {}

CreateCalls == SeqOf(EventsOf("create"))

CeilDiv(n, c) == (n + c - 1) \div c

NewDctBuilt == \E k \in EventsOf("get_new_dct") : log[k].res = "ok"

\* C9 (as stated): once the chunk loop is left, exactly ceil(n/c) create calls were
\* made and their chunks cover every new payload exactly once and in order,
\* whatever the responses were.
C9_Original ==
    (NewDctBuilt /\ pc # "upload_new_lunch_money_transactions") =>
      /\ Cardinality(EventsOf("create")) = CeilDiv(Len(new_transactions_dct), chunk_size)
      /\ Flatten([k \in 1 .. Len(CreateCalls) |-> log[CreateCalls[k]].ids]) =
           ExternalIds(new_transactions_dct)

\* C10 (as stated): right after a create response that carries the ids, the store
\* row of every record of the chunk holds the id returned for that record.
C10_Original ==
    (log # << >> /\ log[Len(log)].op = "create" /\ log[Len(log)].res = "ids") =>
      \A k \in 1 .. Len(log[Len(log)].ids) :
        LET i == log[Len(log)].ids[k]
        IN  i \in DOMAIN db /\ db[i].lunch_money_id = log[Len(log)].lm[k]

TransportFailures ==
    { k \in EventsOf("update") : log[k].res = "transport" }

\* C11: a transport failure of a sink update call raises the fatal
\* UpdateChangedTransactionsError: the cycle is aborted, the failed call is the last
\* store or sink call of the cycle, and the changed payloads after the failing one
\* are not sent in that cycle.
C11_TransportFailureStops ==
    \A k \in TransportFailures :
      /\ pc = "aborted"
      /\ k = Len(log)
      /\ Cardinality(EventsOf("update")) = sent + 1
      /\ \A j \in (sent + 2) .. Len(changed_transactions_dct) :
           \A u \in EventsOf("update") :
             log[u].ids # << changed_transactions_dct[j].external_id >>

\* The first of two changed payloads fails; the second one is never sent.
C11_Witness ==
    /\ TransportFailures # {}
    /\ pc = "aborted"
    /\ sent = 0
    /\ Len(changed_transactions_dct) = 2

FetchFailures ==
    { k \in EventsOf("get_transactions") : log[k].res = "fail" }

\* C12: when a per-account fetch fails the cycle is aborted at once: no canonical
\* record set exists, nothing is classified as new or changed, the store is as it
\* was when the cycle started, and the cycle makes no store call and no sink call.
C12_FetchFailureAborts ==
    FetchFailures # {} =>
      /\ pc = "aborted"
      /\ Len(log) = 1
      /\ transactions_df = Empty
      /\ new_transactions_df = Empty /\ new_transactions_dct = << >>
      /\ changed_transactions_df = Empty /\ changed_transactions_dct = << >>
      /\ db = db0

\* A fetch fails in a cycle that starts with a store holding rows.
C12_Witness ==
    /\ FetchFailures # {}
    /\ cycle = 2
    /\ db # Empty

\* The (acc_name, df) pairs of the configured accounts, in configuration order.
MainPairs ==
    [k \in 1 .. Len(main_accounts) |->
        [key |-> main_accounts[k].acc_name,
         value |-> get_transactions_df(main_accounts[k].acc_id, main_accounts[k].acc_name)]]

PotPairs ==
    [k \in 1 .. Len(pot_accounts) |->
        [key |-> pot_accounts[k].acc_name,
         value |-> get_transactions_df(pot_accounts[k].acc_id,
                                       << pot_accounts[k].acc_name, "Pot" >>)]]

\* C13 (as stated): when get_transactions hands its result to the downstream steps,
\* every task has completed, the two mappings by account name are the ones the
\* configuration order gives whatever the completion order was, and they hold one
\* entry per configured account, main accounts and pots alike, also when two pots
\* have the same name.
C13_Original ==
    fetch_pc = "returned" =>
      /\ running = {}
      /\ transactions_dct = dict(MainPairs)
      /\ pot_transactions_dct = dict(PotPairs)
      /\ Len(transactions_dct) = Len(main_accounts)
      /\ Len(pot_transactions_dct) = Len(pot_accounts)
      /\ Len(fetched_df) = Len(main_accounts) + Len(pot_accounts)

\* The payloads the sink calls of this cycle carried.
CreatedPayloads ==
    { new_transactions_dct[k] : k \in { j \in 1 .. Len(new_transactions_dct) :
                                           new_transactions_dct[j].external_id \in CreatedIds } }

UpdatedPayloads ==
    { changed_transactions_dct[k] : k \in 1 .. Cardinality(EventsOf("update")) }

\* C14 (as stated): no payload passed to a sink create or update call has a null
\* category_id, because the adapter raises on a record whose category the
\* category table does not know.
C14_Original ==
    \A payload \in CreatedPayloads \cup UpdatedPayloads : payload.category_id # NULL

Mapped == map_pc \in {"returned", "reapplied"}

\* The index of the rows in the mapper's output.
CanonicalIdx == { canonical_df[k].idx : k \in 1 .. Len(canonical_df) }

\* The raw rows whose formatted category is outside the enumerated set.
UnknownIdx ==
    { k \in 1 .. Len(raw_df) :
        format_category(raw_df[k].category, category_replacements_dct) \notin all_categories }

\* C15: every record of the mapper's output has a category of the enumerated set
\* (23 items); a record whose formatted category is outside the set is not in the
\* output and is listed in the one alert of the run, which lists nothing else; a
\* run that drops nothing sends no alert.
C15_UnknownCategoryDropped ==
    /\ Cardinality(all_categories) = 23
    /\ Mapped =>
         /\ \A k \in 1 .. Len(canonical_df) : canonical_df[k].category \in all_categories
         /\ CanonicalIdx = (1 .. Len(raw_df)) \ UnknownIdx
         /\ Len(canonical_df) = Cardinality(CanonicalIdx)
         /\ Len(notifications) <= 1
         /\ UnknownIdx = {} <=> notifications = << >>
         /\ UnknownIdx # {} =>
              /\ Len(notifications[1]) = Cardinality(UnknownIdx)
              /\ \A k \in UnknownIdx :
                   \E j \in 1 .. Len(notifications[1]) :
                     /\ notifications[1][j][1] = raw_df[k].id
                     /\ notifications[1][j][2] = raw_df[k].date \div 2
                     /\ notifications[1][j][3] =
                          format_category(raw_df[k].category, category_replacements_dct)
                     /\ notifications[1][j][5] = raw_df[k].source

\* A run that keeps one record and drops another.
C15_Witness ==
    /\ map_pc = "returned"
    /\ Len(raw_df) = 2
    /\ Len(canonical_df) = 1
    /\ Len(notifications) = 1

\* C16 (as stated): the frame apply_transformations returns holds no two records
\* with the same transaction id, also when two source accounts returned the same
\* id, and its records are ordered by timestamp, latest first.
C16_Original ==
    Mapped =>
      /\ \A j, k \in 1 .. Len(canonical_df) :
           j # k => canonical_df[j].id # canonical_df[k].id
      /\ \A k \in 1 .. (Len(canonical_df) - 1) :
           canonical_df[k].timestamp >= canonical_df[k + 1].timestamp

\* C17 (as stated): handling the category, description and amount of the mapper's
\* output a second time leaves these fields of every record as they were, and
\* format_categories maps every member of the enumerated category set to itself.
C17_Original ==
    map_pc = "reapplied" =>
      /\ \A k \in 1 .. Len(canonical_df) :
           /\ reapplied_df[k].category = canonical_df[k].category
           /\ reapplied_df[k].description = canonical_df[k].description
           /\ FracEq(reapplied_df[k].amount, canonical_df[k].amount)
      /\ \A c \in all_categories : format_category(c, category_replacements_dct) = c

\* The raw row a record of the output was made from.
RawOf(rec) == raw_df[rec.idx]

\* C18: the canonical amount of every record is -local_amount / 100 when the raw
\* local_currency differs from "GBP" and -amount / 100 otherwise, the raw amounts
\* being integers of minor units: -500 in GBP gives 5, local_amount -1000 in USD
\* with amount -800 gives 10.
C18_CanonicalAmount ==
    Mapped =>
      \A k \in 1 .. Len(canonical_df) :
        LET raw == RawOf(canonical_df[k])
            canonical == canonical_df[k].amount
        IN  /\ raw.amount.d = 1 /\ raw.local_amount.d = 1
            /\ raw.local_currency # "GBP" =>
                 FracEq(canonical, [n |-> 0 - raw.local_amount.n, d |-> 100])
            /\ raw.local_currency = "GBP" =>
                 FracEq(canonical, [n |-> 0 - raw.amount.n, d |-> 100])
            /\ (raw.local_currency = "GBP" /\ raw.amount = Frac(0 - 500)) =>
                 FracEq(canonical, Frac(5))
            /\ (raw.local_currency = "USD" /\ raw.local_amount = Frac(0 - 1000)) =>
                 FracEq(canonical, Frac(10))

\* A USD record whose amounts differ is in the output.
C18_Witness ==
    /\ map_pc = "returned"
    /\ \E k \in 1 .. Len(canonical_df) :
         /\ RawOf(canonical_df[k]).local_currency = "USD"
         /\ RawOf(canonical_df[k]).amount = Frac(0 - 800)
         /\ RawOf(canonical_df[k]).local_amount = Frac(0 - 1000)
         /\ FracEq(canonical_df[k].amount, Frac(10))

\* C19 (as stated): the canonical currency of every record is a lowercase code: the
\* lowercased local_currency when the raw local_currency differs from "GBP", a
\* missing local_currency included, and the lowercased account currency otherwise.
C19_Original ==
    Mapped =>
      \A k \in 1 .. Len(canonical_df) :
        LET raw == RawOf(canonical_df[k])
        IN  /\ canonical_df[k].currency \in LowercaseCodes
            /\ raw.local_currency # "GBP" =>
                 canonical_df[k].currency = str_lower(raw.local_currency)
            /\ raw.local_currency = "GBP" =>
                 canonical_df[k].currency = str_lower(raw.currency)

\* C20: the decline flag of every record is 1 when its decline_reason is neither
\* missing nor the empty string, and 0 otherwise.
C20_DeclineFlag ==
    Mapped =>
      \A k \in 1 .. Len(canonical_df) :
        LET raw == RawOf(canonical_df[k])
        IN  /\ canonical_df[k].decline \in {0, 1}
            /\ canonical_df[k].decline = 1 <=>
                 (raw.decline_reason # NaN /\ raw.decline_reason # "")
            /\ canonical_df[k].decline_reason = raw.decline_reason

\* Records with a missing, an empty and a set decline_reason have been mapped.
C20_Witness ==
    /\ map_pc = "returned"
    /\ \E k \in 1 .. Len(canonical_df) :
         RawOf(canonical_df[k]).decline_reason = "" /\ canonical_df[k].decline = 0

\* The description of a raw row after the merchant name and the pot lookup.
DescribedValue(raw) ==
    LET named == IF raw.merchant_description # NaN THEN raw.merchant_description
                 ELSE raw.description
    IN  IF named = "pot_0001" THEN "Holiday Fund" ELSE named

\* C21: the final description of every record is its notes when the merchant name
\* (or, without one, the raw description), looked up in the pot table, starts with
\* "PB", and is that value unchanged otherwise: a merchant name wins over the raw
\* description, a pot id becomes the pot name, any other value passes through.
C21_DescriptionOrder ==
    Mapped =>
      \A k \in 1 .. Len(canonical_df) :
        LET raw == RawOf(canonical_df[k])
            value == DescribedValue(raw)
        IN  /\ value \in {"PB 0042", "PB Stores"} => canonical_df[k].description = raw.notes
            /\ value \notin {"PB 0042", "PB Stores"} => canonical_df[k].description = value
            /\ canonical_df[k].notes = raw.notes

\* A raw "PB" description without a merchant name has given way to the notes, and
\* elsewhere a merchant name has hidden a raw "PB" description.
C21_Witness ==
    /\ map_pc = "returned"
    /\ \E k \in 1 .. Len(canonical_df) :
         /\ RawOf(canonical_df[k]).description = "PB 0042"
         /\ RawOf(canonical_df[k]).merchant_description = NaN
         /\ RawOf(canonical_df[k]).notes = "dinner"
         /\ canonical_df[k].description = "dinner"

\* C22 (as stated): over any sequence of cycles, whatever calls fail, the sink
\* creates at most one record for a canonical transaction id.
C22_Original == \A i \in Ids : sink[i] <= 1

\* C23 (as stated): when the sink update call for a changed record has failed, the
\* store does not hold the fetched values of that record as if the sink had
\* accepted them: the record, fetched with the same values by the next run (which
\* starts on this store), is classified changed again.
C23_Original ==
    \A k \in TransportFailures :
      log[k].ids[1] \in get_changed_transaction_ids(db, transactions_df)

ReinsertDone ==
    \E k \in EventsOf("db_insert_changed") : log[k].res = "ok"

\* C24: once the changed records are deleted and reinserted, the store row of each
\* holds the lunch_money_id the store held for that id before the delete (no other
\* call of the cycle writes the row of a changed record) and the tracked fields of
\* the fetched record.
C24_ReinsertKeepsSinkId ==
    ReinsertDone =>
      \A i \in ChangedIds :
        /\ i \in DOMAIN db
        /\ db[i].lunch_money_id = db0[i].lunch_money_id
        /\ changed_transactions_df[i].lunch_money_id = db0[i].lunch_money_id
        /\ TrackedEqual(db[i], transactions_df[i])
        /\ ~TrackedEqual(db0[i], transactions_df[i])

\* A record the sink had given an id has been reinserted with edited fields.
C24_Witness ==
    /\ ReinsertDone
    /\ \E i \in ChangedIds : db[i].lunch_money_id # NULL /\ db[i].notes # db0[i].notes

\* The ids the sink has returned so far for records with external_id i.
ReturnedFor(i) == { SinkId(i, m) : m \in 0 .. (sink[i] - 1) }

\* A store row never holds a sink id that the sink did not return for its record.
SinkIdProvenance ==
    \A i \in DOMAIN db :
      db[i].lunch_money_id # NULL => db[i].lunch_money_id \in ReturnedFor(i)

\* No step changes the non-null lunch_money_id of a row the store keeps.
SinkIdKept ==
    \A i \in (DOMAIN db) \cap (DOMAIN db') :
      db[i].lunch_money_id # NULL => db'[i].lunch_money_id = db[i].lunch_money_id

AdapterRaised == \E k \in EventsOf("get_new_dct") : log[k].res = "raise"

\* C26 (as stated): when the new-transaction adapter has aborted the cycle on a
\* source name without an asset id, no create call was made in the cycle, none of
\* the cycle's new records is in the store, and the same fetch classifies every
\* one of them new again.
C26_Original ==
    AdapterRaised =>
      /\ EventsOf("create") = {}
      /\ \A i \in NewIds :
           /\ i \notin DOMAIN db
           /\ i \in DOMAIN get_new_transactions(db, transactions_df)

\* C27 (as stated): every update call goes to PUT transactions/{id} with id the
\* lunch_money_id of the payload it sends; given a list, the calls are one per
\* payload in list order; given a single payload, the one call for it is made.
C27_Original ==
    /\ \A k \in 1 .. Len(puts) :
         puts[k].url = transactions_url(puts[k].transaction.lunch_money_id)
    /\ isinstance_list =>
         /\ \A k \in 1 .. Len(puts) : puts[k].transaction = transactions_dct_lst[k]
         /\ update_pc = "returned" => Len(puts) = Len(transactions_dct_lst)
    /\ (~isinstance_list /\ update_pc \in {"returned", "raised"}) =>
         /\ Len(puts) = 1
         /\ puts[1].transaction = transactions_dct_lst

====
